---------------------------- MODULE Spec2Model ----------------------------
(***************************************************************************)
(* Verification model of the two localization filters of the repository:   *)
(*   src/TP3/ParticleFilter.py   (particle filter, resampling)             *)
(*   src/TP2/EKFLocalization.py  (extended Kalman filter)                  *)
(*                                                                         *)
(* Numbers.  The programs compute in floating point.  The model computes   *)
(* exactly: angles are integers counted in quarter turns (Pi = 2 units, so *)
(* that sin and cos are exact), weights are exact fractions num[i]/den     *)
(* with one common denominator, and a value that the program obtains from  *)
(* a division 0/0 is the distinguished value NaN (den = 0 for a weight     *)
(* vector, the nan flag for a pose or a covariance).  numpy does not raise *)
(* on a float division by zero: it warns and returns nan or inf.           *)
(***************************************************************************)
EXTENDS Integers, Sequences, FiniteSets, TLC

VARIABLES
    \* ---- angle_wrap driver
    wa,          \* the angle first handed to angle_wrap
    wout,        \* the current value (wa after wn applications)
    wn,          \* number of applications so far
    \* ---- resampling functions called on their own
    rs_pc,       \* "in" (inputs drawn) or "out" (function returned)
    rs_alg,      \* "none", "low_variance" or "reallocation"
    rs_w,        \* the input weight vector
    rs_draws,    \* the random draws consumed by the call
    rs_out,      \* the returned [idx, num, den, err]
    \* ---- particle filter main loop
    k,           \* loop index of ParticleFilter.py line 371
    pc,          \* position in the loop body
    xParticles,  \* sequence of particle poses [x, y, th]
    wp,          \* weight vector [num, den]
    resampled,   \* whether the last resample decision called the resampler
    \* ---- extended Kalman filter main loop
    ek,          \* loop index of EKFLocalization.py line 299
    epc,         \* position in the loop body, or "raised"
    xEst,        \* pose estimate [nan, v]
    PEst,        \* covariance estimate [nan, m]
    xPred,       \* predicted pose
    PPred,       \* predicted covariance
    z,           \* the observation <<range, bearing>> or None
    iFeature,    \* the observed landmark (0-based) or None
    \* ---- construction of a program from its configuration
    cfg,         \* the configuration values at the top of the main program
    cpc,         \* how far the program got with that configuration
    \* ---- two runs of the particle filter program side by side
    runs         \* the state of each run

vars == <<wa, wout, wn, rs_pc, rs_alg, rs_w, rs_draws, rs_out,
          k, pc, xParticles, wp, resampled,
          ek, epc, xEst, PEst, xPred, PPred, z, iFeature,
          cfg, cpc, runs>>

wrapVars == <<wa, wout, wn>>
rsVars == <<rs_pc, rs_alg, rs_w, rs_draws, rs_out>>
pfVars == <<k, pc, xParticles, wp, resampled>>
ekfVars == <<ek, epc, xEst, PEst, xPred, PPred, z, iFeature>>
cfgVars == <<cfg, cpc>>
twinVars == <<runs>>

-----------------------------------------------------------------------------
(* Bounds of the model *)

\* angle_wrap is driven with every angle in -MaxAngle..MaxAngle quarter turns
MaxAngle == 16
\* and applied at most MaxWraps times to its own output
MaxWraps == 3

-----------------------------------------------------------------------------
(* Geometry utilities *)

\* math.pi, in quarter turns
Pi == 2

\* fit angle between -pi and pi
angle_wrap(a) ==
    IF a > Pi THEN a - 2 * Pi
    ELSE IF a < -Pi THEN a + 2 * Pi
    ELSE a

\* math.cos and math.sin, exact on quarter turns
cos(t) ==
    LET r == t % (2 * Pi)
    IN  IF r = 0 THEN 1 ELSE IF r = Pi THEN -1 ELSE 0

sin(t) == cos(t - Pi \div 2)

\* the interval (-pi, pi]
InHalfOpen(a) == -Pi < a /\ a <= Pi

-----------------------------------------------------------------------------
(* Exact fractions.  A weight vector is [num |-> <<a1..aM>>, den |-> d],     *)
(* weight i being ai/d; den = 0 is the vector of NaN that numpy returns for  *)
(* 0/0 on every component.                                                   *)

RECURSIVE GCD(_, _)
GCD(a, b) == IF b = 0 THEN a ELSE GCD(b, a % b)

LCM(a, b) == (a * b) \div GCD(a, b)

RECURSIVE SumSeq(_)
SumSeq(s) == IF s = <<>> THEN 0 ELSE Head(s) + SumSeq(Tail(s))

RECURSIVE SumSq(_)
SumSq(s) == IF s = <<>> THEN 0 ELSE Head(s) * Head(s) + SumSq(Tail(s))

RECURSIVE GCDSeq(_)
GCDSeq(s) == IF s = <<>> THEN 0 ELSE GCD(Head(s), GCDSeq(Tail(s)))

IsNaN(w) == w.den = 0

NaNWeights(M) == [num |-> [i \in 1..M |-> 0], den |-> 0]

\* the same weights in lowest terms (a canonical form, not a program step)
Reduce(w) ==
    LET g == GCD(w.den, GCDSeq(w.num))
    IN  IF g <= 1 THEN w
        ELSE [num |-> [i \in 1..Len(w.num) |-> w.num[i] \div g], den |-> w.den \div g]

\* a sequence of fractions <<n, d>> as one weight vector
RECURSIVE LCMDen(_)
LCMDen(fs) == IF fs = <<>> THEN 1 ELSE LCM(Head(fs)[2], LCMDen(Tail(fs)))

Common(fs) ==
    LET L == LCMDen(fs)
    IN  Reduce([num |-> [i \in 1..Len(fs) |-> fs[i][1] * (L \div fs[i][2])], den |-> L])

\* np.sum(w) == 1, exactly
SumsToOne(w) == ~IsNaN(w) /\ SumSeq(w.num) = w.den

-----------------------------------------------------------------------------
(* Particle filter: configuration *)

\* Nb of particle in the filter (300 in the program)
nParticles == 11

\* theta_eff = 0.1, as the fraction ThetaNum / ThetaDen
ThetaNum == 1
ThetaDen == 10

\* A draw of np.random.uniform(0, 1/N) is j / (N * UDiv) with 0 <= j < UDiv
UDiv == 512
\* the draws the model tries: the smallest positive one and the largest
UNums == {1, UDiv - 1}

-----------------------------------------------------------------------------
(* Particle filter resampling *)

\* cumulative sums of the numerators: np.cumsum(pw)
RECURSIVE CumSum(_, _)
CumSum(s, acc) ==
    IF s = <<>> THEN <<>>
    ELSE <<acc + Head(s)>> \o CumSum(Tail(s), acc + Head(s))

\* the while loop of re_sampling, for sample ip (0-based) starting at ind
\* (1-based); 0 stands for the IndexError of w_cum[ind] past the end
RECURSIVE Walk(_, _, _, _, _)
Walk(cum, den, ip, r, ind) ==
    IF ind > Len(cum) THEN 0
    ELSE IF (ip * UDiv + r) * den > cum[ind] * nParticles * UDiv
         THEN Walk(cum, den, ip, r, ind + 1)
         ELSE ind

RECURSIVE WalkAll(_, _, _, _, _)
WalkAll(cum, den, ip, r, ind) ==
    IF ip >= nParticles THEN <<>>
    ELSE LET i == Walk(cum, den, ip, r, ind)
         IN  IF i = 0 THEN <<0>>
             ELSE <<i>> \o WalkAll(cum, den, ip + 1, r, i)

\* the offsets np.random.uniform(0, 1 / nParticles) tried for re_sampling, as
\* numerators over N * UDiv: the interval is closed at 0
OffsetNums == {0, 1, UDiv \div 2, UDiv - 1}

re_sampling_weights_kept(pw, r) ==
    LET indexes == WalkAll(CumSum(pw.num, 0), pw.den, 0, r, 1)
        failed == \E i \in 1..Len(indexes) : indexes[i] = 0
    IN  [idx |-> indexes,
         num |-> [i \in 1..Len(indexes) |->
                    IF indexes[i] = 0 THEN 0 ELSE pw.num[indexes[i]]],
         den |-> pw.den,
         err |-> failed]

\* low variance re-sampling; r is the numerator of the uniform offset
re_sampling(pw, r) ==
    LET M == Len(pw.num)
        indexes == WalkAll(CumSum(pw.num, 0), pw.den, 0, r, 1)
        failed == \E i \in 1..Len(indexes) : indexes[i] = 0
    IN  [idx |-> indexes,
         num |-> [i \in 1..M |-> 1],
         den |-> M,
         err |-> failed]

\* weights[m] >= 1 / N
Heavy(w, m) == ~IsNaN(w) /\ w.num[m] * nParticles >= w.den

Copies_ceil(w, m) == (nParticles * w.num[m] + w.den - 1) \div w.den

\* int(np.floor(N * weights[m]))
Copies(w, m) == (nParticles * w.num[m]) \div w.den

\* weights[m] >= u for the draw u = j / (N * UDiv)
KeptLight(w, m, j) == ~IsNaN(w) /\ w.num[m] * nParticles * UDiv >= j * w.den

\* the for loop of reallocation_resampling: the entries <<index, n, d>>
\* appended for particles m..M
RECURSIVE ForLoop(_, _, _)
ForLoop(w, us, m) ==
    IF m > Len(w.num) THEN <<>>
    ELSE (IF Heavy(w, m)
          THEN [h \in 1..Copies(w, m) |-> <<m, w.num[m], w.den * Copies(w, m)>>]
          ELSE IF KeptLight(w, m, us[m])
               THEN << <<m, 1, nParticles>> >>
               ELSE <<>>)
         \o ForLoop(w, us, m + 1)

\* the while loop of reallocation_resampling: pad up to N entries
PadLoop(kept, pads) ==
    IF Len(kept) >= nParticles THEN kept
    ELSE kept \o [j \in 1..(nParticles - Len(kept)) |-> <<pads[j], 1, nParticles>>]

reallocation_resampling(weights, us, pads) ==
    LET out == PadLoop(ForLoop(weights, us, 1), pads)
        ws == Common([i \in 1..Len(out) |-> <<out[i][2], out[i][3]>>])
    IN  [idx |-> [i \in 1..Len(out) |-> out[i][1]],
         num |-> ws.num,
         den |-> ws.den,
         err |-> FALSE]

-----------------------------------------------------------------------------
(* angle_wrap on its own: every input of the bounded range, applied          *)
(* repeatedly to its own output                                              *)

WrapIdle == wa = 0 /\ wout = 0 /\ wn = 0

WrapInit ==
    /\ wa \in -MaxAngle..MaxAngle
    /\ wout = wa
    /\ wn = 0

WrapCall ==
    /\ wn < MaxWraps
    /\ wout' = angle_wrap(wout)
    /\ wn' = wn + 1
    /\ wa' = wa


WrapNext == WrapCall /\ UNCHANGED <<rsVars, pfVars, ekfVars, cfgVars, twinVars>>

-----------------------------------------------------------------------------
(* The two resampling functions called on their own, on normalized weight    *)
(* vectors of length N and on streams of random draws                        *)

\* weights are drawn in units of 1 / (N * Grain)
Grain == 2

\* the N - 2 last weights share what the first two leave, as evenly as
\* integers allow
SplitRest(rest, i) ==
    rest \div (nParticles - 2) + (IF i <= rest % (nParticles - 2) THEN 1 ELSE 0)

WeightsOf(a1, a2) ==
    [num |-> [i \in 1..nParticles |->
                IF i = 1 THEN a1
                ELSE IF i = 2 THEN a2
                ELSE SplitRest(nParticles * Grain - a1 - a2, i - 2)],
     den |-> nParticles * Grain]

InputWeights ==
    { WeightsOf(p[1], p[2]) :
      p \in { q \in (0..(nParticles * Grain)) \X (0..(2 * Grain)) :
              q[1] + q[2] <= nParticles * Grain } }

\* streams of uniform draws: one value for odd particles, one for even ones
UStreams(M) ==
    { [m \in 1..M |-> IF m % 2 = 1 THEN j1 ELSE j2] : j1 \in UNums, j2 \in UNums }

\* streams of np.random.choice(M): start anywhere, stay or step by one
PadStreams(M, starts) ==
    { [j \in 1..nParticles |-> ((s - 1 + d * (j - 1)) % M) + 1] :
      s \in starts, d \in {0, 1} }

NoDraws == [r |-> 0, us |-> <<>>, pads |-> <<>>]
NoOutput == [idx |-> <<>>, num |-> <<>>, den |-> 1, err |-> FALSE]

RsIdle ==
    /\ rs_pc = "in"
    /\ rs_alg = "none"
    /\ rs_w = [num |-> <<>>, den |-> 1]
    /\ rs_draws = NoDraws
    /\ rs_out = NoOutput

RsInit ==
    /\ rs_pc = "in"
    /\ rs_alg = "none"
    /\ rs_w \in {Reduce(w) : w \in InputWeights}
    /\ rs_draws = NoDraws
    /\ rs_out = NoOutput

CallReSampling ==
    /\ rs_pc = "in"
    /\ \E r \in OffsetNums :
        /\ rs_draws' = [NoDraws EXCEPT !.r = r]
        /\ rs_out' = re_sampling(rs_w, r)
    /\ rs_alg' = "low_variance"
    /\ rs_pc' = "out"
    /\ rs_w' = rs_w
    /\ UNCHANGED <<wrapVars, pfVars, ekfVars, cfgVars, twinVars>>

CallReallocation ==
    /\ rs_pc = "in"
    /\ \E us \in UStreams(Len(rs_w.num)),
          pads \in PadStreams(Len(rs_w.num), 1..Len(rs_w.num)) :
        /\ rs_draws' = [NoDraws EXCEPT !.us = us, !.pads = pads]
        /\ rs_out' = reallocation_resampling(rs_w, us, pads)
    /\ rs_alg' = "reallocation"
    /\ rs_pc' = "out"
    /\ rs_w' = rs_w
    /\ UNCHANGED <<wrapVars, pfVars, ekfVars, cfgVars, twinVars>>

RsNext == CallReSampling \/ CallReallocation

-----------------------------------------------------------------------------
(* Particle filter: main program *)

\* Simulation time and periods (Tf = 1000, dt_pred = 1, dt_meas = 1 in the
\* program; the model takes dt_meas = 2 so that steps without observation
\* occur, as get_observation provides for)
Tf == 4
dt_pred == 1
dt_meas == 2

\* Simulation.__init__: nSteps = int(np.round(Tf / dt_pred))
nSteps == Tf \div dt_pred

\* initial conditions: xTrue = [1, -50, 0]
xTrue0 == <<1, -50, 0>>

\* noised controls u_tilda = (Vx, Vy, angular rate) returned by get_odometry
Controls == { <<0, 1, om>> : om \in {0, 1} }

\* draws w_k of np.random.multivariate_normal([0, 0, 0], QEst)
Noises == { <<0, 0, e>> : e \in {0, 1} }

\* one draw per particle: particle 1 draws n1, every other particle n
NoiseDraws(M) ==
    { [p \in 1..M |-> IF p = 1 THEN n1 ELSE n] : n1 \in Noises, n \in Noises }

\* The likelihood exp(-0.5 Innov' inv(REst) Innov) of a particle is a float in
\* [0, 1]: l / LikDen, where 0 is the underflow of exp for a large innovation
LikDen == 210
LikNums == {0, 1, LikDen}

\* one likelihood per particle p < nParticles: particle h gets l1, the
\* others l2
Likelihoods ==
    { [p \in 1..nParticles |-> IF p = h THEN l1 ELSE l2] :
      h \in {1, 2}, l1 \in LikNums, l2 \in LikNums }

\* evolution model (f); w_k is the noise drawn inside the function
motion_model(x, u_tilda, dt, w_k) ==
    << x[1] + (u_tilda[1] + w_k[1]) * cos(x[3]) * dt
            - (u_tilda[2] + w_k[2]) * sin(x[3]) * dt,
       x[2] + (u_tilda[1] + w_k[1]) * sin(x[3]) * dt
            + (u_tilda[2] + w_k[2]) * cos(x[3]) * dt,
       angle_wrap(x[3]) + (u_tilda[3] + w_k[3]) * dt >>

\* Simulation.get_observation: a measurement exists at step k
HasObservation(kk) == (kk * dt_pred) % dt_meas = 0

\* wp[p] *= likelihood, for p in range(nParticles); a weight past
\* nParticles is left as it is
Weighted(w, lik) ==
    IF IsNaN(w) THEN w
    ELSE [num |-> [p \in 1..Len(w.num) |->
                     IF p <= nParticles THEN w.num[p] * lik[p]
                     ELSE w.num[p] * LikDen],
          den |-> w.den * LikDen]

\* wp /= np.sum(wp): a zero sum makes every weight 0/0 = NaN
Normalized(w) ==
    IF IsNaN(w) \/ SumSeq(w.num) = 0 THEN NaNWeights(Len(w.num))
    ELSE Reduce([num |-> w.num, den |-> SumSeq(w.num)])

NeffBelowNth_off_by_N(w) ==
    ~IsNaN(w) /\ w.den * w.den * ThetaDen < ThetaNum * SumSq(w.num)

\* Neff < Nth, with Neff = 1.0 / np.sum(wp**2) and Nth = nParticles *
\* theta_eff; a comparison with NaN is False
NeffBelowNth(w) ==
    ~IsNaN(w) /\ w.den * w.den * ThetaDen < nParticles * ThetaNum * SumSq(w.num)

PFInit ==
    /\ k = 1
    /\ pc = "predict"
    /\ xParticles = [p \in 1..nParticles |-> xTrue0]
    /\ wp = Reduce([num |-> [p \in 1..nParticles |-> 1], den |-> nParticles])
    /\ resampled = FALSE

\* lines 372-383: odometry, then the prediction of the first nParticles
\* particles
Predict ==
    /\ pc = "predict"
    /\ k < nSteps
    /\ \E u_tilda \in Controls, w \in NoiseDraws(Len(xParticles)) :
        xParticles' = [p \in 1..Len(xParticles) |->
                         IF p <= nParticles
                         THEN motion_model(xParticles[p], u_tilda, dt_pred, w[p])
                         ELSE xParticles[p]]
    /\ pc' = "weight"
    /\ UNCHANGED <<k, wp, resampled, wrapVars, rsVars, ekfVars, cfgVars, twinVars>>

\* lines 385-399 with an observation: weighting, then normalization
WeightObserved ==
    /\ pc = "weight"
    /\ HasObservation(k)
    /\ \E lik \in Likelihoods : wp' = Normalized(Weighted(wp, lik))
    /\ pc' = "decide"
    /\ UNCHANGED <<k, xParticles, resampled, wrapVars, rsVars, ekfVars, cfgVars, twinVars>>

\* lines 385-399 with z = None: normalization alone
WeightUnobserved ==
    /\ pc = "weight"
    /\ ~HasObservation(k)
    /\ wp' = Normalized(wp)
    /\ pc' = "decide"
    /\ UNCHANGED <<k, xParticles, resampled, wrapVars, rsVars, ekfVars, cfgVars, twinVars>>

\* lines 415-420, Neff < Nth: reallocation resampling, then the next step
Resample ==
    /\ pc = "decide"
    /\ NeffBelowNth(wp)
    /\ \E us \in UStreams(Len(wp.num)),
          pads \in PadStreams(Len(wp.num), {1, Len(wp.num)}) :
        LET out == reallocation_resampling(wp, us, pads)
        IN  /\ xParticles' = [i \in 1..Len(out.idx) |-> xParticles[out.idx[i]]]
            /\ wp' = [num |-> out.num, den |-> out.den]
    /\ resampled' = TRUE
    /\ k' = k + 1
    /\ pc' = "predict"
    /\ UNCHANGED <<wrapVars, rsVars, ekfVars, cfgVars, twinVars>>

\* lines 415-418, Neff >= Nth (or NaN): nothing is resampled
Keep ==
    /\ pc = "decide"
    /\ ~NeffBelowNth(wp)
    /\ resampled' = FALSE
    /\ k' = k + 1
    /\ pc' = "predict"
    /\ UNCHANGED <<xParticles, wp, wrapVars, rsVars, ekfVars, cfgVars, twinVars>>

PFNext == Predict \/ WeightObserved \/ WeightUnobserved \/ Resample \/ Keep

-----------------------------------------------------------------------------
(* Extended Kalman filter.  Real numbers are quantized to integers: a        *)
(* division rounds down (Quot), a square root rounds down (isqrt), atan2     *)
(* rounds to the quarter turn.  A pose or a matrix whose components are NaN  *)
(* has nan = TRUE (its v or m is then meaningless and kept at zero).         *)

None == <<>>

Quot(a, b) == IF b > 0 THEN a \div b ELSE (-a) \div (-b)

RECURSIVE isqrt_from(_, _)
isqrt_from(n, r) == IF (r + 1) * (r + 1) > n THEN r ELSE isqrt_from(n, r + 1)

\* math.sqrt
isqrt(n) == isqrt_from(n, 0)

\* math.atan2; atan2(0, 0) = 0
atan2(dy, dx) ==
    IF dx = 0 /\ dy = 0 THEN 0
    ELSE IF dx >= dy /\ dx >= -dy THEN 0
    ELSE IF dy >= dx /\ dy >= -dx THEN Pi \div 2
    ELSE IF dy <= dx /\ dy <= -dx THEN -(Pi \div 2)
    ELSE IF dy >= 0 THEN Pi ELSE -Pi

Rows(A) == Len(A)
Cols(A) == Len(A[1])

MatMul(A, B) ==
    [i \in 1..Rows(A) |->
       [j \in 1..Cols(B) |-> SumSeq([l \in 1..Cols(A) |-> A[i][l] * B[l][j]])]]

MatAdd(A, B) == [i \in 1..Rows(A) |-> [j \in 1..Cols(A) |-> A[i][j] + B[i][j]]]

MatSub(A, B) == [i \in 1..Rows(A) |-> [j \in 1..Cols(A) |-> A[i][j] - B[i][j]]]

Transpose(A) == [j \in 1..Cols(A) |-> [i \in 1..Rows(A) |-> A[i][j]]]

MatQuot(A, d) == [i \in 1..Rows(A) |-> [j \in 1..Cols(A) |-> Quot(A[i][j], d)]]

Eye3 == << <<1, 0, 0>>, <<0, 1, 0>>, <<0, 0, 1>> >>
Zero3 == << <<0, 0, 0>>, <<0, 0, 0>>, <<0, 0, 0>> >>

NaNPose == [nan |-> TRUE, v |-> <<0, 0, 0>>]
NaNMat == [nan |-> TRUE, m |-> Zero3]
Pose(v) == [nan |-> FALSE, v |-> v]
Mat(m) == [nan |-> FALSE, m |-> m]

\* Location of landmarks (2 x nLandmarks, random in the program)
ekf_Map == << <<3, 5, 0>>, <<-40, -38, -44>> >>
ekf_nLandmarks == Len(ekf_Map[1])

\* Modeled errors used in the Kalman filter process
ekf_QEst == << <<1, 0, 0>>, <<0, 1, 0>>, <<0, 0, 1>> >>
ekf_REst == << <<1, 0>>, <<0, 1>> >>

\* initial conditions: xTrue = [1, -40, -pi/2], PEst = 10 diag(1, 1, (1 deg)^2)
ekf_xTrue0 == <<1, -40, -(Pi \div 2)>>
ekf_PEst0 == << <<10, 0, 0>>, <<0, 10, 0>>, <<0, 0, 1>> >>

\* Simulation time of the EKF program (Tf = 6000 in the program)
ekf_Tf == 6
ekf_nSteps == ekf_Tf \div dt_pred

\* noised controls returned by get_odometry
ekf_Controls == { <<0, 1, om>> : om \in {0, 1} }

\* noisy observations <<range, bearing>> returned by get_observation
ekf_Observations == { <<r, b>> : r \in {0, 1, 3}, b \in {0, 1} }

\* np.random.randint(0, self.Map.shape[1] - 1): the high end is exclusive
ekf_Features == 0..(ekf_nLandmarks - 2)

\* evolution model (f) of the EKF
ekf_motion_model(x, u, dt) ==
    << x[1] + (u[1] * cos(x[3]) - u[2] * sin(x[3])) * dt,
       x[2] + (u[1] * sin(x[3]) + u[2] * cos(x[3])) * dt,
       angle_wrap(x[3] + u[3] * dt) >>

\* observation model (h)
observation_model(xVeh, iF, Map) ==
    LET dx == Map[1][iF + 1] - xVeh[1]
        dy == Map[2][iF + 1] - xVeh[2]
    IN  << isqrt(dx * dx + dy * dy), angle_wrap(atan2(dy, dx) - xVeh[3]) >>

\* h(x) Jacobian wrt x; numpy float division 0/0 returns nan and raises
\* nothing
get_obs_jac(xP, iF, Map) ==
    LET dx == Map[1][iF + 1] - xP[1]
        dy == Map[2][iF + 1] - xP[2]
        q == isqrt(dx * dx + dy * dy)
        q2 == dx * dx + dy * dy
    IN  IF q = 0 \/ q2 = 0 THEN [nan |-> TRUE, m |-> <<>>]
        ELSE [nan |-> FALSE,
              m |-> << <<Quot(-dx, q), Quot(-dy, q), 0>>,
                       <<Quot(dy, q2), Quot(-dx, q2), -1>> >>]

\* f(x,u) Jacobian wrt x
F(x, u, dt) ==
    << <<1, 0, -u[1] * sin(x[3]) * dt - u[2] * cos(x[3]) * dt>>,
       <<0, 1, u[1] * cos(x[3]) * dt - u[2] * sin(x[3]) * dt>>,
       <<0, 0, 1>> >>

\* f(x,u) Jacobian wrt w
G(x, u, dt) ==
    << <<dt * cos(x[3]), -dt * sin(x[3]), 0>>,
       <<dt * sin(x[3]), dt * cos(x[3]), 0>>,
       <<0, 0, dt>> >>

Det2(S) == S[1][1] * S[2][2] - S[1][2] * S[2][1]
Adj2(S) == << <<S[2][2], -S[1][2]>>, <<-S[2][1], S[1][1]>> >>

EkfIdle ==
    /\ ek = 0
    /\ epc = "idle"
    /\ xEst = NaNPose
    /\ PEst = NaNMat
    /\ xPred = NaNPose
    /\ PPred = NaNMat
    /\ z = None
    /\ iFeature = None

EkfInit ==
    /\ ek = 1
    /\ epc = "predict"
    /\ xEst = Pose(ekf_xTrue0)
    /\ PEst = Mat(ekf_PEst0)
    /\ xPred = Pose(ekf_xTrue0)
    /\ PPred = Mat(ekf_PEst0)
    /\ z = None
    /\ iFeature = None

\* PPred = F_x @ PEst @ F_x.T + G_u @ QEst @ G_u.T
Predicted(F_x, P, G_u, Q) ==
    LET FP[A \in {MatMul(F_x, P)}] == MatMul(A, Transpose(F_x))
        GQ[A \in {MatMul(G_u, Q)}] == MatMul(A, Transpose(G_u))
    IN  MatAdd(FP[MatMul(F_x, P)], GQ[MatMul(G_u, Q)])

\* lines 301-314: odometry, Kalman prediction, observation
EkfPredict ==
    /\ epc = "predict"
    /\ ek < ekf_nSteps
    /\ \E u_tilde \in ekf_Controls :
        IF xEst.nan \/ PEst.nan
        THEN /\ xPred' = (IF xEst.nan THEN NaNPose
                          ELSE Pose(ekf_motion_model(xEst.v, u_tilde, dt_pred)))
             /\ PPred' = NaNMat
        ELSE \E F_x \in {F(xEst.v, u_tilde, dt_pred)},
                G_u \in {G(xEst.v, u_tilde, dt_pred)} :
                 /\ xPred' = Pose(ekf_motion_model(xEst.v, u_tilde, dt_pred))
                 /\ PPred' = Mat(Predicted(F_x, PEst.m, G_u, ekf_QEst))
    /\ IF HasObservation(ek)
       THEN \E obs \in ekf_Observations, f \in ekf_Features :
                z' = obs /\ iFeature' = f
       ELSE z' = None /\ iFeature' = None
    /\ epc' = "update"
    /\ UNCHANGED <<ek, xEst, PEst, wrapVars, rsVars, pfVars, cfgVars, twinVars>>

\* Innov = z - zPred, with the bearing wrapped
Innovation(obs, zPred) ==
    << <<obs[1] - zPred[1]>>, <<angle_wrap(obs[2] - zPred[2])>> >>

\* S = REst + H @ PPred @ H.T
InnovationCov(H, PP, R) ==
    LET HP[A \in {MatMul(H, PP)}] == MatMul(A, Transpose(H))
    IN  MatAdd(R, HP[MatMul(H, PP)])

\* K = PPred @ H.T @ np.linalg.inv(S), for det(S) = d # 0
Gain(PP, H, S, d) ==
    LET PH[A \in {MatMul(PP, Transpose(H))}] == MatQuot(MatMul(A, Adj2(S)), d)
    IN  PH[MatMul(PP, Transpose(H))]

\* PEst = (I - K @ H) @ PPred, then 0.5 * (PEst + PEst.T)
Updated(K, H, PP) ==
    LET IKH[A \in {MatSub(Eye3, MatMul(K, H))}] == MatMul(A, PP)
        Sym[P1 \in {IKH[MatSub(Eye3, MatMul(K, H))]}] ==
            MatQuot(MatAdd(P1, Transpose(P1)), 2)
    IN  Sym[IKH[MatSub(Eye3, MatMul(K, H))]]

\* lines 316-348: the Kalman update
EkfUpdate ==
    /\ epc = "update"
    /\ z # None
    /\ \E H \in {IF xPred.nan THEN [nan |-> TRUE, m |-> <<>>]
                 ELSE get_obs_jac(xPred.v, iFeature, ekf_Map)} :
        IF H.nan \/ PPred.nan
        THEN \* S, K, xEst and PEst are NaN; np.linalg.inv raises nothing
             /\ xEst' = NaNPose
             /\ PEst' = NaNMat
             /\ ek' = ek + 1
             /\ epc' = "predict"
        ELSE \E S \in {InnovationCov(H.m, PPred.m, ekf_REst)} :
             IF Det2(S) = 0
             THEN \* np.linalg.inv raises LinAlgError: the program ends
                  /\ epc' = "raised"
                  /\ UNCHANGED <<ek, xEst, PEst>>
             ELSE \E K \in {Gain(PPred.m, H.m, S, Det2(S))} :
                  \E dx \in {MatMul(K, Innovation(z,
                                observation_model(xPred.v, iFeature, ekf_Map)))} :
                      /\ xEst' = Pose(<< xPred.v[1] + dx[1][1],
                                         xPred.v[2] + dx[2][1],
                                         angle_wrap(xPred.v[3] + dx[3][1]) >>)
                      /\ PEst' = Mat(Updated(K, H.m, PPred.m))
                      /\ ek' = ek + 1
                      /\ epc' = "predict"
    /\ UNCHANGED <<xPred, PPred, z, iFeature, wrapVars, rsVars, pfVars, cfgVars, twinVars>>

EkfPropagate_keeping_estimate ==
    /\ epc = "update"
    /\ z = None
    /\ ek' = ek + 1
    /\ epc' = "predict"
    /\ UNCHANGED <<xEst, PEst, xPred, PPred, z, iFeature, wrapVars, rsVars,
                   pfVars, cfgVars, twinVars>>

\* lines 350-353: there was no observation available
EkfPropagate ==
    /\ epc = "update"
    /\ z = None
    /\ xEst' = xPred
    /\ PEst' = PPred
    /\ ek' = ek + 1
    /\ epc' = "predict"
    /\ UNCHANGED <<xPred, PPred, z, iFeature, wrapVars, rsVars, pfVars, cfgVars, twinVars>>

EkfNext == EkfPredict \/ EkfUpdate \/ EkfPropagate

-----------------------------------------------------------------------------
(* Construction of the two programs from their configuration: the            *)
(* assignments at the top of each main program, the Simulation constructor   *)
(* and the entry into the temporal loop.  Neither program tests a            *)
(* configuration value; a value is refused only where an operation on it     *)
(* raises.                                                                   *)

\* configuration values tried for Tf, for dt_pred and dt_meas, and for
\* nParticles
CfgTimes == {1, 3, 4}
CfgPeriods == -1..2
CfgCounts == -1..2

\* an initial covariance with a negative variance
ekf_PEst0_indefinite == << <<-10, 0, 0>>, <<0, 10, 0>>, <<0, 0, 1>> >>

Configs ==
    { [prog |-> "PF", Tf |-> t, dt_pred |-> dp, dt_meas |-> dm,
       nParticles |-> n, PEst |-> ekf_PEst0] :
      t \in CfgTimes, dp \in CfgPeriods, dm \in CfgPeriods, n \in CfgCounts }
    \cup
    { [prog |-> "EKF", Tf |-> t, dt_pred |-> dp, dt_meas |-> dm,
       nParticles |-> 1, PEst |-> P] :
      t \in CfgTimes, dp \in CfgPeriods, dm \in CfgPeriods,
      P \in {ekf_PEst0, ekf_PEst0_indefinite} }

\* int(np.round(a / b)) for b # 0: the nearest integer, a half going to the
\* even neighbour
RoundDiv(a, b) ==
    LET q == Quot(a, b)
        r2 == 2 * (IF b > 0 THEN a - q * b ELSE q * b - a)
        m == IF b > 0 THEN b ELSE -b
    IN  IF r2 < m THEN q
        ELSE IF r2 > m THEN q + 1
        ELSE IF q % 2 = 0 THEN q ELSE q + 1

CfgIdle == cfg = None /\ cpc = "idle"

CfgInit == cfg \in Configs /\ cpc = "config"

\* ParticleFilter.py lines 310-363.  np.random.randn(3, nParticles) raises
\* ValueError for a negative count; np.average raises ZeroDivisionError for
\* the empty weight vector of nParticles = 0; Tf / dt_pred raises
\* ZeroDivisionError for dt_pred = 0.
ConstructPF ==
    /\ cpc = "config"
    /\ cfg.prog = "PF"
    /\ cpc' = (IF cfg.nParticles < 0 THEN "rejected"
               ELSE IF cfg.nParticles = 0 THEN "rejected"
               ELSE IF cfg.dt_pred = 0 THEN "rejected"
               ELSE "constructed")
    /\ UNCHANGED <<cfg, wrapVars, rsVars, pfVars, ekfVars, twinVars>>

\* EKFLocalization.py lines 264-296.  PEst is assigned as given; Tf / dt_pred
\* raises ZeroDivisionError for dt_pred = 0.
ConstructEKF ==
    /\ cpc = "config"
    /\ cfg.prog = "EKF"
    /\ cpc' = (IF cfg.dt_pred = 0 THEN "rejected" ELSE "constructed")
    /\ UNCHANGED <<cfg, wrapVars, rsVars, pfVars, ekfVars, twinVars>>

\* for k in range(1, simulation.nSteps), first iteration; get_observation
\* computes k * dt_pred % dt_meas, which raises ZeroDivisionError for
\* dt_meas = 0
EnterLoop ==
    /\ cpc = "constructed"
    /\ RoundDiv(cfg.Tf, cfg.dt_pred) > 1
    /\ cpc' = (IF cfg.dt_meas = 0 THEN "raised" ELSE "stepped")
    /\ UNCHANGED <<cfg, wrapVars, rsVars, pfVars, ekfVars, twinVars>>

\* for k in range(1, simulation.nSteps) with nSteps <= 1: no iteration, the
\* program runs to its end
SkipLoop ==
    /\ cpc = "constructed"
    /\ RoundDiv(cfg.Tf, cfg.dt_pred) <= 1
    /\ cpc' = "finished"
    /\ UNCHANGED <<cfg, wrapVars, rsVars, pfVars, ekfVars, twinVars>>

CfgNext == ConstructPF \/ ConstructEKF \/ EnterLoop \/ SkipLoop

-----------------------------------------------------------------------------
(* Two runs of ParticleFilter.py side by side, with the random generator of  *)
(* numpy as part of each run's state.  The generator is the pair [s, pos]:   *)
(* the value it was last seeded with and the number of values drawn since.   *)
(* The value it yields is a fixed function of that pair.                     *)

\* base seeds tried (seed = 123456 in the programs)
MaxSeed == 3
Seeds == 0..MaxSeed

\* the generator yields integers below RandMod
RandMod == 16

\* np.random.seed(sd)
np_random_seed(sd) == [s |-> sd, pos |-> 0]

\* the generator after n more values were drawn
Skip(g, n) == [s |-> g.s, pos |-> g.pos + n]

\* the next value of generator g
Rand(g) ==
    ((g.s + 1) * (g.pos + 3) * 7 + g.pos * g.pos + (g.s \div 2)) % RandMod

\* the i-th next value of np.random.randn (i from 0), scaled to -1..1
randn(g, i) == (Rand(Skip(g, i)) % 3) - 1

\* Location of landmarks of the particle filter: nLandmarks = 5 in the program
pf_nLandmarks == 3

\* Map = 120*np.random.rand(2, nLandmarks)-60, scaled to a 3 x 3 square at
\* the start of the trajectory
pf_Map(g) ==
    << [j \in 1..pf_nLandmarks |-> Rand(Skip(g, j - 1)) % 3],
       [j \in 1..pf_nLandmarks |->
          -50 + (Rand(Skip(g, pf_nLandmarks + j - 1)) % 3)] >>

\* xParticles = xTrue + np.diag([1, 1, 0.1]) @ np.random.randn(3, nParticles)
InitialParticles(g) ==
    [p \in 1..nParticles |->
       << xTrue0[1] + randn(g, p - 1),
          xTrue0[2] + randn(g, nParticles + p - 1),
          xTrue0[3] >>]

\* Simulation.get_robot_control
get_robot_control(kk) == <<0, 1, 0>>

\* composes two transformations
tcomp(tab, tbc, dt) ==
    << tab[1] + dt * (cos(tab[3]) * tbc[1] - sin(tab[3]) * tbc[2]),
       tab[2] + dt * (sin(tab[3]) * tbc[1] + cos(tab[3]) * tbc[2]),
       angle_wrap(tab[3] + dt * tbc[3]) >>

\* Simulation.simulate_world
simulate_world(xTrue, kk) ==
    LET x == tcomp(xTrue, get_robot_control(kk), dt_pred)
    IN  <<x[1], x[2], angle_wrap(x[3])>>

get_odometry_seeding_kept(g, sd, kk) == g

\* Simulation.get_odometry: np.random.seed(seed*2 + k)
get_odometry_seeding(g, sd, kk) == np_random_seed(sd * 2 + kk)

\* Simulation.get_observation: np.random.seed(seed*3 + k)
get_observation_seeding(g, sd, kk) == np_random_seed(sd * 3 + kk)

\* Simulation.get_odometry: u_tilda = u + dt_pred*uNoise, with
\* uNoise = np.sqrt(QTrue) @ np.random.randn(3) drawn from g
get_odometry(g, kk) ==
    LET u == get_robot_control(kk)
    IN  <<u[1], u[2], u[3] + dt_pred * (Rand(Skip(g, 2)) % 2)>>

\* the draw w_k of motion_model for particle p (from 1), 3 values each
ProcessNoise(g, p) == <<0, 0, Rand(Skip(g, 3 * (p - 1) + 2)) % 2>>

\* Simulation.get_observation with a measurement: [z, iFeature] drawn from g
get_observation(g, xTrue, Map) ==
    LET iF == Rand(g) % (pf_nLandmarks - 1)
        zt == observation_model(xTrue, iF, Map)
    IN  [z |-> <<zt[1] + randn(g, 1), angle_wrap(zt[2])>>, iFeature |-> iF]

\* the likelihood exp(-0.5 Innov' inv(REst) Innov) of a particle, as a
\* numerator over LikDen
Likelihood(obs, zPred) ==
    LET dr == obs[1] - zPred[1]
        db == angle_wrap(obs[2] - zPred[2])
    IN  IF dr = 0 /\ db = 0 THEN LikDen
        ELSE IF db = 0 /\ dr \in {-1, 1} THEN 1
        ELSE 0

\* xEst = np.average(xParticles, axis=1, weights=wp), as sums over a common
\* denominator
Estimate(xs, w) ==
    IF IsNaN(w) THEN [num |-> <<0, 0, 0>>, den |-> 0]
    ELSE [num |-> [i \in 1..3 |->
                     SumSeq([p \in 1..Len(xs) |-> w.num[p] * xs[p][i]])],
          den |-> SumSeq(w.num)]

\* np.random.uniform(0, 1 / N) as a numerator over N * UDiv
UniformNum(g) == 1 + (Rand(g) * (UDiv - 2)) \div (RandMod - 1)

\* the draws of reallocation_resampling: one uniform for every light
\* particle in turn, then one np.random.choice(M) for every padded particle
LightBefore(w, m) == Cardinality({i \in 1..(m - 1) : ~Heavy(w, i)})

UniformDraws(g, w) ==
    [m \in 1..Len(w.num) |-> UniformNum(Skip(g, LightBefore(w, m)))]

ChoiceDraws(g, w) ==
    [j \in 1..nParticles |->
       1 + (Rand(Skip(g, LightBefore(w, Len(w.num) + 1) + j - 1)) % Len(w.num))]

\* the number of values reallocation_resampling draws
DrawsUsed(w, kept) ==
    LightBefore(w, Len(w.num) + 1)
    + (IF kept >= nParticles THEN 0 ELSE nParticles - kept)

\* lines 310-363 for base seed sd
TwinStart(sd) ==
    LET g == np_random_seed(sd)
    IN  [seed |-> sd,
         rng |-> Skip(g, 2 * pf_nLandmarks + 3 * nParticles),
         k |-> 1,
         pc |-> "predict",
         xTrue |-> xTrue0,
         Map |-> pf_Map(g),
         xParticles |-> InitialParticles(Skip(g, 2 * pf_nLandmarks)),
         wp |-> Reduce([num |-> [p \in 1..nParticles |-> 1], den |-> nParticles]),
         xEst |-> Estimate(InitialParticles(Skip(g, 2 * pf_nLandmarks)),
                           [num |-> [p \in 1..nParticles |-> 1],
                            den |-> nParticles]),
         ndraws |-> 0]

TwinInit == \E sd \in Seeds : runs = [r \in 1..2 |-> TwinStart(sd)]

\* lines 372-383 in run r
TwinPredict(r) ==
    LET R == runs[r]
        g1 == get_odometry_seeding(R.rng, R.seed, R.k)
        u_tilda == get_odometry(g1, R.k)
        g2 == Skip(g1, 3)
    IN  /\ R.pc = "predict"
        /\ R.k < nSteps
        /\ runs' = [runs EXCEPT ![r] =
             [R EXCEPT
                !.xTrue = simulate_world(R.xTrue, R.k),
                !.xParticles =
                    [p \in 1..Len(R.xParticles) |->
                       IF p <= nParticles
                       THEN motion_model(R.xParticles[p], u_tilda, dt_pred,
                                         ProcessNoise(g2, p))
                       ELSE R.xParticles[p]],
                !.rng = Skip(g2, 3 * nParticles),
                !.pc = "weight"]]
        /\ UNCHANGED <<wrapVars, rsVars, pfVars, ekfVars, cfgVars>>

\* lines 385-412 in run r
TwinWeight(r) ==
    LET R == runs[r]
        g1 == get_observation_seeding(R.rng, R.seed, R.k)
        o == get_observation(g1, R.xTrue, R.Map)
        lik == [p \in 1..nParticles |->
                  Likelihood(o.z, observation_model(R.xParticles[p],
                                                    o.iFeature, R.Map))]
        w == IF HasObservation(R.k) THEN Normalized(Weighted(R.wp, lik))
             ELSE Normalized(R.wp)
    IN  /\ R.pc = "weight"
        /\ runs' = [runs EXCEPT ![r] =
             [R EXCEPT
                !.wp = w,
                !.xEst = Estimate(R.xParticles, w),
                !.rng = IF HasObservation(R.k) THEN Skip(g1, 3) ELSE g1,
                !.pc = "decide"]]
        /\ UNCHANGED <<wrapVars, rsVars, pfVars, ekfVars, cfgVars>>

\* lines 415-420 in run r, Neff < Nth
TwinResample(r) ==
    LET R == runs[r]
        out == reallocation_resampling(R.wp, UniformDraws(R.rng, R.wp),
                                       ChoiceDraws(R.rng, R.wp))
        used == DrawsUsed(R.wp, Len(ForLoop(R.wp, UniformDraws(R.rng, R.wp), 1)))
    IN  /\ R.pc = "decide"
        /\ NeffBelowNth(R.wp)
        /\ runs' = [runs EXCEPT ![r] =
             [R EXCEPT
                !.xParticles = [i \in 1..Len(out.idx) |-> R.xParticles[out.idx[i]]],
                !.wp = [num |-> out.num, den |-> out.den],
                !.rng = Skip(R.rng, used),
                !.ndraws = used,
                !.k = R.k + 1,
                !.pc = "predict"]]
        /\ UNCHANGED <<wrapVars, rsVars, pfVars, ekfVars, cfgVars>>

\* lines 415-418 in run r, Neff >= Nth (or NaN)
TwinKeep(r) ==
    LET R == runs[r]
    IN  /\ R.pc = "decide"
        /\ ~NeffBelowNth(R.wp)
        /\ runs' = [runs EXCEPT ![r] =
             [R EXCEPT !.ndraws = 0, !.k = R.k + 1, !.pc = "predict"]]
        /\ UNCHANGED <<wrapVars, rsVars, pfVars, ekfVars, cfgVars>>

TwinNext ==
    \E r \in 1..2 :
        TwinPredict(r) \/ TwinWeight(r) \/ TwinResample(r) \/ TwinKeep(r)

-----------------------------------------------------------------------------
(* Specifications *)

PFIdle ==
    /\ k = 0
    /\ pc = "idle"
    /\ xParticles = <<>>
    /\ wp = [num |-> <<>>, den |-> 1]
    /\ resampled = FALSE

TwinIdle == runs = <<>>

InitWrap == WrapInit /\ RsIdle /\ PFIdle /\ EkfIdle /\ CfgIdle /\ TwinIdle
SpecWrap == InitWrap /\ [][WrapNext]_vars

InitResample == WrapIdle /\ RsInit /\ PFIdle /\ EkfIdle /\ CfgIdle /\ TwinIdle
SpecResample == InitResample /\ [][RsNext]_vars

Init == WrapIdle /\ RsIdle /\ PFInit /\ EkfIdle /\ CfgIdle /\ TwinIdle
Next == PFNext
Spec == Init /\ [][Next]_vars

InitEKF == WrapIdle /\ RsIdle /\ PFIdle /\ EkfInit /\ CfgIdle /\ TwinIdle
SpecEKF == InitEKF /\ [][EkfNext]_vars

InitTwin == WrapIdle /\ RsIdle /\ PFIdle /\ EkfIdle /\ CfgIdle /\ TwinInit
SpecTwin == InitTwin /\ [][TwinNext]_vars

InitConfig == WrapIdle /\ RsIdle /\ PFIdle /\ EkfIdle /\ CfgInit /\ TwinIdle
SpecConfig == InitConfig /\ [][CfgNext]_vars

-----------------------------------------------------------------------------
(* Claims about the resampling functions (SpecResample) *)

Returned == rs_pc = "out" /\ ~rs_out.err

\* weight i of the returned vector equals the fraction n / d
OutWeightIs(i, n, d) == rs_out.num[i] * d = n * rs_out.den

\* C1: both resampling functions return exactly N particles and exactly N
\* weights, for every normalized weight vector of length N and every
\* outcome of the random draws.
C1_ReturnsNParticles ==
    rs_pc = "out" =>
        /\ ~rs_out.err
        /\ Len(rs_out.idx) = nParticles
        /\ Len(rs_out.num) = nParticles

\* C2: the weights returned by both resampling functions sum to 1.
C2_ReturnedWeightsSumToOne ==
    rs_pc = "out" => SumsToOne(rs_out)

\* The quantities of C9, stated on the input weights and the draws alone
C9_IsHeavy(m) == rs_w.num[m] * nParticles >= rs_w.den
C9_Floor(m) == (nParticles * rs_w.num[m]) \div rs_w.den
C9_LightKept(m) ==
    /\ ~C9_IsHeavy(m)
    /\ rs_w.num[m] * nParticles * UDiv >= rs_draws.us[m] * rs_w.den
C9_Emitted(m) ==
    IF C9_IsHeavy(m) THEN C9_Floor(m) ELSE IF C9_LightKept(m) THEN 1 ELSE 0
C9_EmittedBefore(m) == SumSeq([i \in 1..(m - 1) |-> C9_Emitted(i)])
C9_EmittedAll == C9_EmittedBefore(Len(rs_w.num) + 1)
C9_NPads == IF C9_EmittedAll >= nParticles THEN 0 ELSE nParticles - C9_EmittedAll
C9_PadHits(m) == Cardinality({j \in 1..C9_NPads : rs_draws.pads[j] = m})
C9_Occurrences(m) == Cardinality({i \in 1..Len(rs_out.idx) : rs_out.idx[i] = m})

\* C9 as claimed: every particle m with w[m] >= 1/N appears exactly
\* floor(N w[m]) times in the output of reallocation_resampling, each copy
\* carrying weight w[m] / floor(N w[m]), for every outcome of the draws.
C9_ExactlyFloorCopies ==
    (Returned /\ rs_alg = "reallocation") =>
        \A m \in 1..Len(rs_w.num) :
            C9_IsHeavy(m) =>
                /\ C9_Occurrences(m) = C9_Floor(m)
                /\ \A i \in 1..Len(rs_out.idx) :
                     rs_out.idx[i] = m =>
                         OutWeightIs(i, rs_w.num[m], rs_w.den * C9_Floor(m))

\* C9 amended: every particle m with w[m] >= 1/N appears floor(N w[m]) times
\* plus once for every padding draw that picks m; the floor(N w[m]) copies of
\* the deterministic phase are consecutive and carry w[m] / floor(N w[m])
\* each, and every padded copy comes after all kept particles and carries 1/N.
C9_FloorCopiesPlusPadding ==
    (Returned /\ rs_alg = "reallocation") =>
        /\ Len(rs_out.idx) = C9_EmittedAll + C9_NPads
        /\ \A m \in 1..Len(rs_w.num) :
            C9_IsHeavy(m) =>
                /\ C9_Occurrences(m) = C9_Floor(m) + C9_PadHits(m)
                /\ \A h \in 1..C9_Floor(m) :
                     /\ rs_out.idx[C9_EmittedBefore(m) + h] = m
                     /\ OutWeightIs(C9_EmittedBefore(m) + h,
                                    rs_w.num[m], rs_w.den * C9_Floor(m))
        /\ \A j \in 1..C9_NPads :
             /\ rs_out.idx[C9_EmittedAll + j] = rs_draws.pads[j]
             /\ OutWeightIs(C9_EmittedAll + j, 1, nParticles)

\* C9 witness: a particle kept in two or more deterministic copies that a
\* padding draw picks again
C9_Witness ==
    /\ Returned
    /\ rs_alg = "reallocation"
    /\ \E m \in 1..Len(rs_w.num) :
         C9_IsHeavy(m) /\ C9_Floor(m) >= 2 /\ C9_PadHits(m) >= 1

\* The quantities of C15, stated on the input weights and the offset alone
C15_CumWeight(i) == SumSeq(SubSeq(rs_w.num, 1, i))

\* cumulative weight i is >= kk / N + r, r being rs_draws.r / (N * UDiv)
C15_Reaches(i, kk) ==
    C15_CumWeight(i) * nParticles * UDiv >= (kk * UDiv + rs_draws.r) * rs_w.den

C15_LeastIndex(kk) ==
    CHOOSE i \in 1..Len(rs_w.num) :
        /\ C15_Reaches(i, kk)
        /\ \A j \in 1..(i - 1) : ~C15_Reaches(j, kk)

\* C15: for every weight vector of length N summing to 1 and every offset r
\* in [0, 1/N), re_sampling picks for each k in 0..N-1 the least index whose
\* cumulative weight is >= k/N + r; the walk never moves past the last
\* cumulative weight, the N indices are non-decreasing, and all weights are
\* reset to 1/N.
C15_LowVarianceSelection ==
    (rs_pc = "out" /\ rs_alg = "low_variance") =>
        /\ ~rs_out.err
        /\ Len(rs_out.idx) = nParticles
        /\ \A kk \in 0..(nParticles - 1) :
             /\ \E i \in 1..Len(rs_w.num) : C15_Reaches(i, kk)
             /\ rs_out.idx[kk + 1] = C15_LeastIndex(kk)
        /\ \A i \in 1..(nParticles - 1) : rs_out.idx[i] <= rs_out.idx[i + 1]
        /\ Len(rs_out.num) = nParticles
        /\ \A i \in 1..nParticles : OutWeightIs(i, 1, nParticles)

\* C15 witness: a selection that skips a particle of weight zero, copies one
\* particle twice and drops one of positive weight, with a positive offset
C15_Witness ==
    /\ rs_pc = "out"
    /\ rs_alg = "low_variance"
    /\ rs_draws.r > 0
    /\ rs_out.idx[1] > 1
    /\ \E i \in 1..(nParticles - 1) : rs_out.idx[i] = rs_out.idx[i + 1]
    /\ \E m \in 1..Len(rs_w.num) :
         /\ rs_w.num[m] > 0
         /\ \A i \in 1..nParticles : rs_out.idx[i] # m

-----------------------------------------------------------------------------
(* Claims about the particle filter loop (Spec) *)

\* C3: after the normalization that ends the weighting phase of every step,
\* all weights are nonnegative and sum to 1; in particular a collapse of
\* every weight to zero is replaced by a defined fallback, not divided by.
C3_NormalizedAfterWeighting ==
    pc = "decide" =>
        /\ SumsToOne(wp)
        /\ \A p \in 1..Len(wp.num) : wp.num[p] >= 0

\* C4: after the predict phase of every step, the heading of every particle
\* lies in (-pi, pi].
C4_HeadingsWrappedAfterPredict ==
    pc = "weight" =>
        \A p \in 1..Len(xParticles) : InHalfOpen(xParticles[p][3])

\* C7: in every step the effective sample size Neff = 1 / sum(w^2) of the
\* current (defined) weights lies in [1, N], N = nParticles.
C7_NeffWithinOneAndN ==
    (pc = "decide" /\ ~IsNaN(wp)) =>
        /\ SumSq(wp.num) <= wp.den * wp.den
        /\ wp.den * wp.den <= nParticles * SumSq(wp.num)

\* Neff < theta N for the weights of the current state, stated on wp alone
C8_NeffLow ==
    /\ wp.den # 0
    /\ ThetaDen * wp.den * wp.den < ThetaNum * nParticles * SumSq(wp.num)

\* C8: in every step, resampling is performed if and only if Neff < theta N
\* for that step's normalized weights; otherwise the particle set and the
\* weight vector stay exactly as they were after normalization.
C8_ResampleIffNeffLow ==
    [][pc = "decide" =>
         /\ resampled' <=> C8_NeffLow
         /\ ~C8_NeffLow => (xParticles' = xParticles /\ wp' = wp)]_vars

\* C8 witness: a step whose decision resampled, after one that did not
C8_Witness == pc = "predict" /\ k > 2 /\ resampled

\* C14: in a step with no observation (z is None), the weight vector after
\* the weighting phase is identical to the weight vector at the start of the
\* step, for every reachable weight vector, including the one left by a
\* resampling in the previous step.
C14_WeightsKeptWithoutObservation ==
    [][(pc = "weight" /\ ~HasObservation(k)) => wp' = wp]_vars

-----------------------------------------------------------------------------
(* Claims about angle_wrap (SpecWrap) *)

\* C5: angle_wrap(a) lies in the half-open interval (-pi, pi] for every
\* finite a, including a = -pi, multiples of pi and |a| > 3 pi.
C5_WrapInHalfOpenInterval ==
    wn = 1 => InHalfOpen(wout)

\* C6: angle_wrap is idempotent: applied to its own output it returns that
\* output, for every finite a.
C6_WrapIdempotent ==
    [][wn >= 1 => wout' = wout]_vars

-----------------------------------------------------------------------------
(* Claims about the extended Kalman filter (SpecEKF) *)

\* the predicted position coincides with the observed landmark
C10_ZeroRange ==
    /\ epc = "update"
    /\ z # None
    /\ ~xPred.nan
    /\ xPred.v[1] = ekf_Map[1][iFeature + 1]
    /\ xPred.v[2] = ekf_Map[2][iFeature + 1]

\* C10: when the update is attempted with a predicted pose at range exactly 0
\* from the observed landmark, the step surfaces a numerical error and the
\* pose estimate and the covariance keep the values they had before the
\* update.
C10_ZeroRangeSurfacesError ==
    [][C10_ZeroRange => (epc' = "raised" /\ xEst' = xEst /\ PEst' = PEst)]_vars

\* P = P.T, component by component; a NaN differs from itself
C11_Symmetric(P) ==
    /\ ~P.nan
    /\ \A i \in 1..3 : \A j \in 1..3 : P.m[i][j] = P.m[j][i]

\* C11: starting from a symmetric initial covariance, PEst is symmetric after
\* every step of any sequence of steps, whether the step was an observation
\* update or a pure propagation.
C11_CovarianceSymmetric ==
    epc # "idle" => C11_Symmetric(PEst)

\* the same for the covariances that are not NaN
C11_SymmetricWhenFinite ==
    (epc # "idle" /\ ~PEst.nan) => C11_Symmetric(PEst)

\* the prediction of one step from the estimate, for the noised control u:
\* xPred = f(xEst, u, dt) and PPred = F PEst F' + G Q G'
C16_Prediction(u) ==
    /\ xPred' = (IF xEst.nan THEN NaNPose
                 ELSE Pose(ekf_motion_model(xEst.v, u, dt_pred)))
    /\ PPred' = (IF xEst.nan \/ PEst.nan THEN NaNMat
                 ELSE Mat(MatAdd(
                        MatMul(MatMul(F(xEst.v, u, dt_pred), PEst.m),
                               Transpose(F(xEst.v, u, dt_pred))),
                        MatMul(MatMul(G(xEst.v, u, dt_pred), ekf_QEst),
                               Transpose(G(xEst.v, u, dt_pred))))))

\* the Kalman update of the predicted pose and covariance by z (or the
\* numerical failure of that update)
C16_UpdateApplied ==
    \E H \in {IF xPred.nan THEN [nan |-> TRUE, m |-> <<>>]
              ELSE get_obs_jac(xPred.v, iFeature, ekf_Map)} :
        IF H.nan \/ PPred.nan
        THEN xEst' = NaNPose /\ PEst' = NaNMat
        ELSE \E S \in {InnovationCov(H.m, PPred.m, ekf_REst)} :
             IF Det2(S) = 0
             THEN epc' = "raised" /\ xEst' = xEst /\ PEst' = PEst
             ELSE \E K \in {Gain(PPred.m, H.m, S, Det2(S))} :
                  \E dx \in {MatMul(K, Innovation(z,
                                observation_model(xPred.v, iFeature, ekf_Map)))} :
                      /\ xEst' = Pose(<< xPred.v[1] + dx[1][1],
                                         xPred.v[2] + dx[2][1],
                                         angle_wrap(xPred.v[3] + dx[3][1]) >>)
                      /\ PEst' = Mat(Updated(K, H.m, PPred.m))

\* C16: in an EKF step with no observation the new estimate equals the
\* predicted pose f(xEst, u, dt) and the new covariance equals PPred =
\* F PEst F' + G Q G', with no gain, innovation or symmetrization applied;
\* an update is applied in a step if and only if an observation is present
\* for that step.
C16_PurePropagationWithoutObservation ==
    [][/\ epc = "predict" =>
            /\ \E u \in ekf_Controls : C16_Prediction(u)
            /\ xEst' = xEst
            /\ PEst' = PEst
            /\ z' = None <=> ~HasObservation(ek)
       /\ (epc = "update" /\ z = None) =>
            /\ xEst' = xPred
            /\ PEst' = PPred
            /\ epc' = "predict"
       /\ (epc = "update" /\ z # None) => C16_UpdateApplied]_vars

\* C16 witness: a step without observation has propagated an estimate that an
\* earlier step had updated
C16_Witness ==
    /\ epc = "predict"
    /\ ek = 4
    /\ z = None
    /\ ~xEst.nan
    /\ ~PEst.nan
    /\ xEst = xPred
    /\ PEst = PPred
    /\ PEst.m[1][2] # 0

-----------------------------------------------------------------------------
(* Claims about the configuration (SpecConfig) *)

\* a symmetric 3 x 3 matrix is positive semi-definite iff all its principal
\* minors are nonnegative
C12_IsPSD(P) ==
    /\ \A i \in 1..3 : \A j \in 1..3 : P[i][j] = P[j][i]
    /\ \A i \in 1..3 : P[i][i] >= 0
    /\ \A i \in 1..3 : \A j \in 1..3 :
         i < j => P[i][i] * P[j][j] - P[i][j] * P[j][i] >= 0
    /\ P[1][1] * (P[2][2] * P[3][3] - P[2][3] * P[3][2])
         - P[1][2] * (P[2][1] * P[3][3] - P[2][3] * P[3][1])
         + P[1][3] * (P[2][1] * P[3][2] - P[2][2] * P[3][1]) >= 0

C12_InvalidConfig ==
    \/ cfg.dt_pred <= 0
    \/ cfg.dt_meas <= 0
    \/ cfg.prog = "PF" /\ cfg.nParticles <= 0
    \/ cfg.prog = "EKF" /\ ~C12_IsPSD(cfg.PEst)

\* C12: an invalid configuration (non-positive dt, particle count <= 0,
\* non-PSD initial covariance) is rejected when the filter and the simulation
\* are constructed, before the first iteration of the step loop is entered.
C12_InvalidConfigRejectedAtConstruction ==
    (cpc # "idle" /\ C12_InvalidConfig) => cpc \in {"config", "rejected"}

-----------------------------------------------------------------------------
(* Claims about two runs with the same seed (SpecTwin) *)

\* the generator a run must hold at its position, as a function of the base
\* seed, the step index and the number of values drawn in the step
C13_ExpectedGenerator(R) ==
    IF R.pc = "weight"
    THEN [s |-> 2 * R.seed + R.k, pos |-> 3 + 3 * nParticles]
    ELSE IF R.pc = "decide"
    THEN [s |-> 3 * R.seed + R.k,
          pos |-> IF HasObservation(R.k) THEN 3 ELSE 0]
    ELSE IF R.k = 1
    THEN [s |-> R.seed, pos |-> 2 * pf_nLandmarks + 3 * nParticles]
    ELSE [s |-> 3 * R.seed + R.k - 1,
          pos |-> (IF HasObservation(R.k - 1) THEN 3 ELSE 0) + R.ndraws]

\* C13: two runs with the same base seed hold the same particles, weights
\* and estimate at every step, and every random draw of a step comes from a
\* generator state that depends only on the seed, the step index and the
\* draw's position in the step.
C13_SameSeedSameRun ==
    runs # <<>> =>
        /\ (runs[1].k = runs[2].k /\ runs[1].pc = runs[2].pc) => runs[1] = runs[2]
        /\ \A r \in 1..2 : runs[r].rng = C13_ExpectedGenerator(runs[r])

\* C13 witness: both runs have resampled with random draws in the step before
\* and stand at the same point
C13_Witness ==
    /\ runs # <<>>
    /\ runs[1].pc = "predict"
    /\ runs[2].pc = "predict"
    /\ runs[1].k = runs[2].k
    /\ runs[1].k > 1
    /\ runs[1].ndraws > 0
    /\ runs[2].ndraws > 0

=============================================================================
